---- MODULE Spec2Model ----
(***************************************************************************)
(* Model of the lab command line client: remote URL parsing and discovery  *)
(* (browse command), merge-request operation selection                     *)
(* (commands/mr/mr.go) and the editor-driven title/description flow.       *)
(*                                                                         *)
(* Go strings are modelled as sequences of one-character strings so that   *)
(* strings.Split, strings.HasPrefix, strings.TrimSuffix and strconv.Atoi   *)
(* are computed character by character, as the library computes them.      *)
(***************************************************************************)
EXTENDS Integers, Sequences, FiniteSets, TLC

VARIABLES
    \* --- NewRemoteUrl ---
    urlIn,      \* how the url under test was assembled (scheme, segments, extension)
    url,        \* the raw url string handed to NewRemoteUrl
    parsed,     \* outcome of NewRemoteUrl, or NoneYet
    \* --- GitRemotes / FilterGitlabRemote ---
    remoteUrls, \* urls of the configured remotes, in enumeration order
    dpc,        \* position in BrowseCommand.Run
    gitRemotes, \* outcome of GitRemotes
    gitlabRemote, \* outcome of FilterGitlabRemote
    \* --- ListMergeRequestOption ---
    listOpt,    \* the list option bundle
    state,      \* value returned by GetState, or Unset
    scope,      \* value returned by GetScope, or Unset
    \* --- MergeRequestCommand.Run / getMethod ---
    opt,        \* the create/update option bundle plus AllProject
    args,       \* positional arguments left by the flag parser
    pc,         \* position in MergeRequestCommand.Run
    calls,      \* collaborator calls made so far, in order
    method,     \* outcome of getMethod, or NoneYet
    uiError,    \* error text handed to Ui.Error, or NoError
    prev,       \* signals and operation of the previous invocation
    \* --- editIssueTitleAndDesc ---
    tmpl,       \* template handed to the editor
    epc,        \* position in editIssueTitleAndDesc
    fileExists, \* the temporary template file exists on disk
    fileCreated,\* the temporary template file was created during this flow
    editRet     \* value returned by editIssueTitleAndDesc, or NoneYet

vars == <<urlIn, url, parsed, remoteUrls, dpc, gitRemotes, gitlabRemote,
          listOpt, state, scope, opt, args, pc, calls, method, uiError, prev,
          tmpl, epc, fileExists, fileCreated, editRet>>

parseVars == <<urlIn, url, parsed>>
discVars  == <<remoteUrls, dpc, gitRemotes, gitlabRemote>>
listVars  == <<listOpt, state, scope>>
runVars   == <<opt, args, pc, calls, method, uiError, prev>>
editVars  == <<tmpl, epc, fileExists, fileCreated, editRet>>

NoneYet == [kind |-> "none"]

(***************************************************************************)
(* Bounds                                                                   *)
(***************************************************************************)
MaxSegs    == 4   \* path segments of a generated url
MaxRemotes == 3   \* configured remotes
MaxArgs    == 2   \* positional arguments

(***************************************************************************)
(* Go string library                                                        *)
(***************************************************************************)
Take(s, n) == SubSeq(s, 1, n)
Drop(s, n) == SubSeq(s, n + 1, Len(s))

\* strings.HasPrefix
HasPrefix(s, prefix) ==
    /\ Len(s) >= Len(prefix)
    /\ Take(s, Len(prefix)) = prefix

\* strings.HasSuffix
HasSuffix(s, suffix) ==
    /\ Len(s) >= Len(suffix)
    /\ Drop(s, Len(s) - Len(suffix)) = suffix

\* strings.TrimSuffix
TrimSuffix(s, suffix) ==
    IF HasSuffix(s, suffix) THEN Take(s, Len(s) - Len(suffix)) ELSE s

\* strings.Index: position (0-based) of the first occurrence of sep, or -1
Index(s, sep) ==
    LET hits == {i \in 0..(Len(s) - Len(sep)) : SubSeq(s, i + 1, i + Len(sep)) = sep}
    IN  IF hits = {} THEN -1 ELSE CHOOSE i \in hits : \A j \in hits : i <= j

\* strings.Split with a non-empty separator
RECURSIVE Split(_, _)
Split(s, sep) ==
    LET i == Index(s, sep)
    IN  IF i < 0 THEN <<s>>
        ELSE <<Take(s, i)>> \o Split(Drop(s, i + Len(sep)), sep)

\* strings.Join
RECURSIVE Join(_, _)
Join(elems, sep) ==
    IF Len(elems) = 0 THEN <<>>
    ELSE IF Len(elems) = 1 THEN elems[1]
    ELSE elems[1] \o sep \o Join(Tail(elems), sep)

\* all sequences over S of length at most n
RECURSIVE SeqUpTo(_, _)
SeqUpTo(S, n) ==
    IF n = 0 THEN {<<>>}
    ELSE LET shorter == SeqUpTo(S, n - 1)
         IN  shorter \cup {Append(q, x) : q \in {r \in shorter : Len(r) = n - 1}, x \in S}

(***************************************************************************)
(* String literals of the source                                            *)
(***************************************************************************)
sshLit    == <<"s", "s", "h">>
httpsLit  == <<"h", "t", "t", "p", "s">>
atLit     == <<"@">>
slashLit  == <<"/">>
slash2Lit == <<"/", "/">>
dotGitLit == <<".", "g", "i", "t">>
gitlabLit == <<"g", "i", "t", "l", "a", "b">>

(***************************************************************************)
(* NewRemoteUrl                                                             *)
(***************************************************************************)
Panic == [kind |-> "panic"]

\* a plausible slip: the ".git" extension of an ssh url is not trimmed
otherScheme_noTrim(u) ==
    IF HasPrefix(u, sshLit) THEN
        LET sp == Split(u, atLit)
        IN  IF Len(sp) < 2 THEN [kind |-> "panic"]
            ELSE [kind |-> "ok", s |-> sp[2]]
    ELSE IF HasPrefix(u, httpsLit) THEN
        LET sp == Split(u, slash2Lit)
        IN  IF Len(sp) < 2 THEN [kind |-> "panic"]
            ELSE [kind |-> "ok", s |-> sp[2]]
    ELSE [kind |-> "error"]

\* the part of the url left after the scheme: a string, or "panic" when the
\* indexed element of the split does not exist, or "error" for another scheme
otherScheme(u) ==
    IF HasPrefix(u, sshLit) THEN
        LET sp == Split(u, atLit)
        IN  IF Len(sp) < 2 THEN [kind |-> "panic"]
            ELSE [kind |-> "ok", s |-> TrimSuffix(sp[2], dotGitLit)]
    ELSE IF HasPrefix(u, httpsLit) THEN
        LET sp == Split(u, slash2Lit)
        IN  IF Len(sp) < 2 THEN [kind |-> "panic"]
            ELSE [kind |-> "ok", s |-> sp[2]]
    ELSE [kind |-> "error"]

NewRemoteUrl(u) ==
    LET rest == otherScheme(u)
    IN  IF rest.kind = "error" THEN [kind |-> "error", msg |-> "Invalid remote url", arg |-> u]
        ELSE IF rest.kind = "panic" THEN Panic
        ELSE LET splitUrl == Split(rest.s, slashLit)
             IN  IF Len(splitUrl) < 3 THEN Panic   \* index out of range
                 ELSE [kind |-> "ok",
                       val |-> [Url |-> u, Domain |-> splitUrl[1],
                                User |-> splitUrl[2], Repository |-> splitUrl[3]]]

\* RemoteUrl.ConcatUrl
ConcatUrl(r) ==
    <<"h", "t", "t", "p", "s", ":", "/", "/">>
        \o Join(<<r.Domain, r.User, r.Repository>>, slashLit)

(***************************************************************************)
(* Url inputs: a url is assembled from a scheme prefix, path segments and   *)
(* an optional ".git" extension, and handed to the parser as plain text.    *)
(***************************************************************************)
hubLit == <<"h", "u", "b">>
SegSet == {gitlabLit, hubLit, <<"o">>, <<"p">>, <<>>}
Schemes == {"ssh", "https", "sshNoUser", "http", "scp"}

SchemePrefix(sch) ==
    CASE sch = "ssh"       -> <<"s", "s", "h", ":", "/", "/", "u", "@">>
      [] sch = "https"     -> <<"h", "t", "t", "p", "s", ":", "/", "/">>
      [] sch = "sshNoUser" -> <<"s", "s", "h", ":", "/", "/">>
      [] sch = "http"      -> <<"h", "t", "t", "p", ":", "/", "/">>
      [] sch = "scp"       -> <<"g", "i", "t", "@">>

Render(in) ==
    SchemePrefix(in.scheme) \o Join(in.segs, slashLit)
        \o (IF in.ext THEN dotGitLit ELSE <<>>)

UrlInputs == [scheme : Schemes, segs : SeqUpTo(SegSet, MaxSegs), ext : BOOLEAN]

IdleParse == urlIn = NoneYet /\ url = <<>> /\ parsed = NoneYet

InitParseVars ==
    /\ urlIn \in UrlInputs
    /\ url = Render(urlIn)
    /\ parsed = NoneYet

\* one call of NewRemoteUrl on the url
Parse ==
    /\ urlIn # NoneYet
    /\ parsed = NoneYet
    /\ parsed' = NewRemoteUrl(url)
    /\ UNCHANGED <<urlIn, url>>

(***************************************************************************)
(* GitRemotes, FilterGitlabRemote, BrowseCommand.Run                        *)
(***************************************************************************)
\* the zero value of RemoteUrl, the element that make([]RemoteUrl, 1) holds
ZeroRemoteUrl == [Url |-> <<>>, Domain |-> <<>>, User |-> <<>>, Repository |-> <<>>]

\* the loop of GitRemotes over the remotes not yet visited
RECURSIVE parseRemotes(_, _)
parseRemotes(urls, acc) ==
    IF Len(urls) = 0 THEN [kind |-> "ok", val |-> acc]
    ELSE LET gitRemote == NewRemoteUrl(Head(urls))
         IN  IF gitRemote.kind = "panic" THEN Panic
             ELSE IF gitRemote.kind = "error"
                  THEN [kind |-> "error", msg |-> "Failed serialize remote url",
                        arg |-> Head(urls)]
             ELSE parseRemotes(Tail(urls), Append(acc, gitRemote.val))

\* a plausible slip: an unparsable remote is skipped (continue instead of return)
RECURSIVE parseRemotes_skip(_, _)
parseRemotes_skip(urls, acc) ==
    IF Len(urls) = 0 THEN [kind |-> "ok", val |-> acc]
    ELSE LET gitRemote == NewRemoteUrl(Head(urls))
         IN  IF gitRemote.kind = "panic" THEN Panic
             ELSE IF gitRemote.kind = "error"
                  THEN parseRemotes_skip(Tail(urls), acc)
             ELSE parseRemotes_skip(Tail(urls), Append(acc, gitRemote.val))

GitRemotes_skip(remotes) ==
    IF Len(remotes) = 0
    THEN [kind |-> "error", msg |-> "No remote setting in this repository"]
    ELSE parseRemotes_skip(remotes, <<ZeroRemoteUrl>>)

GitRemotes(remotes) ==
    IF Len(remotes) = 0
    THEN [kind |-> "error", msg |-> "No remote setting in this repository"]
    ELSE parseRemotes(remotes, <<ZeroRemoteUrl>>)

\* a plausible slip: the last matching remote is taken instead of the first
FilterGitlabRemote_last(remotes) ==
    LET gitlabRemotes == SelectSeq(remotes, LAMBDA r : HasPrefix(r.Domain, gitlabLit))
    IN  IF Len(gitlabRemotes) > 0
        THEN [kind |-> "ok", val |-> gitlabRemotes[Len(gitlabRemotes)]]
        ELSE [kind |-> "error", msg |-> "Not a cloned repository from gitlab."]

FilterGitlabRemote(remotes) ==
    LET gitlabRemotes == SelectSeq(remotes, LAMBDA r : HasPrefix(r.Domain, gitlabLit))
    IN  IF Len(gitlabRemotes) > 0
        THEN [kind |-> "ok", val |-> gitlabRemotes[1]]
        ELSE [kind |-> "error", msg |-> "Not a cloned repository from gitlab."]

\* the urls `git remote get-url` can answer with in the model
RemoteIns ==
    { [scheme |-> "https", segs |-> <<gitlabLit, <<"o">>, <<"p">>>>, ext |-> FALSE],
      [scheme |-> "ssh",   segs |-> <<gitlabLit, <<"o">>, <<"p">>>>, ext |-> TRUE],
      [scheme |-> "https", segs |-> <<hubLit, <<"o">>, <<"p">>>>,    ext |-> FALSE],
      [scheme |-> "http",  segs |-> <<gitlabLit, <<"o">>, <<"p">>>>, ext |-> FALSE],
      [scheme |-> "https", segs |-> <<gitlabLit, <<"o">>>>,          ext |-> FALSE] }
RemoteUrlSet == {Render(in) : in \in RemoteIns}
InOf(u) == CHOOSE in \in RemoteIns : Render(in) = u

IdleDisc ==
    /\ remoteUrls = <<>> /\ dpc = "idle"
    /\ gitRemotes = NoneYet /\ gitlabRemote = NoneYet

InitDiscVars ==
    /\ remoteUrls \in SeqUpTo(RemoteUrlSet, MaxRemotes)
    /\ dpc = "GitRemotes"
    /\ gitRemotes = NoneYet
    /\ gitlabRemote = NoneYet

\* BrowseCommand.Run: gitRemotes, err := GitRemotes()
RunGitRemotes ==
    /\ dpc = "GitRemotes"
    /\ gitRemotes' = GitRemotes(remoteUrls)
    /\ dpc' = CASE gitRemotes'.kind = "ok"    -> "FilterGitlabRemote"
                [] gitRemotes'.kind = "error" -> "ExitCodeError"
                [] gitRemotes'.kind = "panic" -> "panicked"
    /\ UNCHANGED <<remoteUrls, gitlabRemote>>

\* BrowseCommand.Run: gitlabRemote, err := FilterGitlabRemote(gitRemotes)
RunFilterGitlabRemote ==
    /\ dpc = "FilterGitlabRemote"
    /\ gitlabRemote' = FilterGitlabRemote(gitRemotes.val)
    /\ dpc' = IF gitlabRemote'.kind = "ok" THEN "browse" ELSE "ExitCodeError"
    /\ UNCHANGED <<remoteUrls, gitRemotes>>

\* BrowseCommand.Run: the browser is launched on the remote's url
RunBrowse ==
    /\ dpc = "browse"
    /\ dpc' = "ExitCodeOK"
    /\ UNCHANGED <<remoteUrls, gitRemotes, gitlabRemote>>

DiscoveryDone == dpc \in {"ExitCodeOK", "ExitCodeError", "panicked", "browse"}

(***************************************************************************)
(* ListMergeRequestOption.GetState / GetScope                               *)
(***************************************************************************)
Unset == "<unset>"
StateStrings == {"all", "opened", "closed", "merged"}
ScopeStrings == {"all", "created-by-me", "assigned-to-me"}

ListOptions ==
    [State : StateStrings, Scope : ScopeStrings, Opened : BOOLEAN, Closed : BOOLEAN,
     Merged : BOOLEAN, CreatedMe : BOOLEAN, AssignedMe : BOOLEAN]

\* a plausible slip: the closed shorthand is tested before the opened one
GetState_closedFirst(l) ==
    IF l.Closed THEN "closed"
    ELSE IF l.Opened THEN "opened"
    ELSE IF l.Merged THEN "merged"
    ELSE l.State

GetState(l) ==
    IF l.Opened THEN "opened"
    ELSE IF l.Closed THEN "closed"
    ELSE IF l.Merged THEN "merged"
    ELSE l.State

GetScope(l) ==
    IF l.CreatedMe THEN "created-by-me"
    ELSE IF l.AssignedMe THEN "assigned-to-me"
    ELSE l.Scope

IdleList == listOpt = NoneYet /\ state = Unset /\ scope = Unset

InitListVars ==
    /\ listOpt \in ListOptions
    /\ state = Unset
    /\ scope = Unset

CallGetState ==
    /\ listOpt # NoneYet
    /\ state = Unset
    /\ state' = GetState(listOpt)
    /\ UNCHANGED <<listOpt, scope>>

CallGetScope ==
    /\ listOpt # NoneYet
    /\ scope = Unset
    /\ scope' = GetScope(listOpt)
    /\ UNCHANGED <<listOpt, state>>

(***************************************************************************)
(* strconv.Atoi on the tokens of the model (all far shorter than the 18     *)
(* digits at which the 64-bit range check of Atoi starts to matter)         *)
(***************************************************************************)
DigitChars == <<"0", "1", "2", "3", "4", "5", "6", "7", "8", "9">>
IsDigit(c) == \E i \in 1..Len(DigitChars) : DigitChars[i] = c
DigitVal(c) == (CHOOSE i \in 1..Len(DigitChars) : DigitChars[i] = c) - 1

RECURSIVE DigitsVal(_)
DigitsVal(ds) ==
    IF Len(ds) = 0 THEN 0
    ELSE 10 * DigitsVal(Take(ds, Len(ds) - 1)) + DigitVal(ds[Len(ds)])

Atoi(s) ==
    LET signed == Len(s) > 0 /\ s[1] \in {"+", "-"}
        digits == IF signed THEN Tail(s) ELSE s
    IN  IF Len(s) = 0 \/ Len(digits) = 0 \/ \E i \in 1..Len(digits) : ~IsDigit(digits[i])
        THEN [ok |-> FALSE, val |-> 0]
        ELSE [ok |-> TRUE,
              val |-> IF s[1] = "-" THEN 0 - DigitsVal(digits) ELSE DigitsVal(digits)]

(***************************************************************************)
(* validMergeRequestIID, hasCreateUpdateOption, getMethod                   *)
(***************************************************************************)
InvalidIID == "Invalid Issue IID. IID: %s"

\* a plausible slip: the first argument is converted but the error is dropped
validMergeRequestIID_noCheck(a) ==
    IF Len(a) < 1 THEN [kind |-> "ok", iid |-> 0]
    ELSE [kind |-> "ok", iid |-> Atoi(a[1]).val]

validMergeRequestIID(a) ==
    IF Len(a) < 1 THEN [kind |-> "ok", iid |-> 0]
    ELSE LET r == Atoi(a[1])
         IN  IF ~r.ok THEN [kind |-> "error", msg |-> InvalidIID, arg |-> a[1]]
             ELSE [kind |-> "ok", iid |-> r.val]

hasCreateUpdateOption(o) ==
    o.Title # "" \/ o.Message # "" \/ o.StateEvent # "" \/ o.AssigneeID # 0

MethodTypes == {"updateOnEditorMethod", "updateMethod", "detailMethod",
                "createOnEditorMethod", "createMethod", "listAllMethod", "listMethod"}

\* a plausible slip: with an identifier, content is tested before the edit flag
getMethod_contentFirst(o, a, mrClientOk, repoClientOk) ==
    IF ~mrClientOk THEN [kind |-> "error", msg |-> "GetMergeRequestClient failed"]
    ELSE IF ~repoClientOk THEN [kind |-> "error", msg |-> "GetRepositoryClient failed"]
    ELSE LET v == validMergeRequestIID(a)
         IN  IF v.kind = "error" THEN v
             ELSE IF Len(a) > 0 THEN
                 IF hasCreateUpdateOption(o)
                 THEN [kind |-> "ok", val |-> [type |-> "updateMethod", id |-> v.iid]]
                 ELSE IF o.Edit
                 THEN [kind |-> "ok", val |-> [type |-> "updateOnEditorMethod", id |-> v.iid]]
                 ELSE [kind |-> "ok", val |-> [type |-> "detailMethod", id |-> v.iid]]
             ELSE IF o.Edit THEN [kind |-> "ok", val |-> [type |-> "createOnEditorMethod"]]
             ELSE IF o.Title # "" THEN [kind |-> "ok", val |-> [type |-> "createMethod"]]
             ELSE IF o.AllProject THEN [kind |-> "ok", val |-> [type |-> "listAllMethod"]]
             ELSE [kind |-> "ok", val |-> [type |-> "listMethod"]]

\* a plausible slip: Create is selected only when a message accompanies the title
getMethod_createNeedsMessage(o, a, mrClientOk, repoClientOk) ==
    IF ~mrClientOk THEN [kind |-> "error", msg |-> "GetMergeRequestClient failed"]
    ELSE IF ~repoClientOk THEN [kind |-> "error", msg |-> "GetRepositoryClient failed"]
    ELSE LET v == validMergeRequestIID(a)
         IN  IF v.kind = "error" THEN v
             ELSE IF Len(a) > 0 THEN
                 IF o.Edit
                 THEN [kind |-> "ok", val |-> [type |-> "updateOnEditorMethod", id |-> v.iid]]
                 ELSE IF hasCreateUpdateOption(o)
                 THEN [kind |-> "ok", val |-> [type |-> "updateMethod", id |-> v.iid]]
                 ELSE [kind |-> "ok", val |-> [type |-> "detailMethod", id |-> v.iid]]
             ELSE IF o.Edit THEN [kind |-> "ok", val |-> [type |-> "createOnEditorMethod"]]
             ELSE IF o.Title # "" /\ o.Message # ""
             THEN [kind |-> "ok", val |-> [type |-> "createMethod"]]
             ELSE IF o.AllProject THEN [kind |-> "ok", val |-> [type |-> "listAllMethod"]]
             ELSE [kind |-> "ok", val |-> [type |-> "listMethod"]]

\* getMethod; mrClientOk and repoClientOk are the outcomes of the two
\* Provider calls that construct the API clients
getMethod(o, a, mrClientOk, repoClientOk) ==
    IF ~mrClientOk THEN [kind |-> "error", msg |-> "GetMergeRequestClient failed"]
    ELSE IF ~repoClientOk THEN [kind |-> "error", msg |-> "GetRepositoryClient failed"]
    ELSE LET v == validMergeRequestIID(a)
         IN  IF v.kind = "error" THEN v
             ELSE IF Len(a) > 0 THEN
                 \* Case of getting Merge Request IID
                 IF o.Edit
                 THEN [kind |-> "ok", val |-> [type |-> "updateOnEditorMethod", id |-> v.iid]]
                 ELSE IF hasCreateUpdateOption(o)
                 THEN [kind |-> "ok", val |-> [type |-> "updateMethod", id |-> v.iid]]
                 ELSE [kind |-> "ok", val |-> [type |-> "detailMethod", id |-> v.iid]]
             \* Case of nothing MergeRequest IID
             ELSE IF o.Edit THEN [kind |-> "ok", val |-> [type |-> "createOnEditorMethod"]]
             ELSE IF o.Title # "" THEN [kind |-> "ok", val |-> [type |-> "createMethod"]]
             ELSE IF o.AllProject THEN [kind |-> "ok", val |-> [type |-> "listAllMethod"]]
             ELSE [kind |-> "ok", val |-> [type |-> "listMethod"]]

\* the Provider calls getMethod makes, in order
getMethodCalls(mrClientOk) ==
    IF mrClientOk THEN <<"GetMergeRequestClient", "GetRepositoryClient">>
    ELSE <<"GetMergeRequestClient">>

(***************************************************************************)
(* MergeRequestCommand.Run                                                  *)
(***************************************************************************)
NoError == "<no error>"
ZeroOpt == [Edit |-> FALSE, Title |-> "", Message |-> "", StateEvent |-> "",
            AssigneeID |-> 0, AllProject |-> FALSE]
Options == [Edit : BOOLEAN, Title : {"", "x"}, Message : {"", "m"},
            StateEvent : {"", "close"}, AssigneeID : {0, 1}, AllProject : BOOLEAN]
Tokens == {<<"4", "2">>, <<"0">>, <<"a", "b", "c">>, <<"-", "5">>, <<"+", "7">>}
ArgLists == SeqUpTo(Tokens, MaxArgs)

\* what the previous invocation selected, by the signals of the selection
Signals(o, a) ==
    [idPresent |-> Len(a) > 0, edit |-> o.Edit, content |-> hasCreateUpdateOption(o),
     allProject |-> o.AllProject, title |-> o.Title # ""]

IdleRun ==
    /\ opt = ZeroOpt /\ args = <<>> /\ pc = "idle" /\ calls = <<>>
    /\ method = NoneYet /\ uiError = NoError /\ prev = NoneYet

InitRunVars ==
    /\ opt = ZeroOpt /\ args = <<>> /\ pc = "ParseArgs" /\ calls = <<>>
    /\ method = NoneYet /\ uiError = NoError /\ prev = NoneYet

\* parseArgs, err := mergeRequestCommandParser.ParseArgs(args)
RunParseArgs ==
    /\ pc = "ParseArgs"
    /\ \/ /\ \E o \in Options, a \in ArgLists : opt' = o /\ args' = a
          /\ pc' = "Provider.Init"
          /\ UNCHANGED uiError
       \/ /\ uiError' = "flag parse error"
          /\ pc' = "ExitCodeError"
          /\ UNCHANGED <<opt, args>>
    /\ UNCHANGED <<calls, method, prev>>

\* c.Provider.Init()
RunProviderInit ==
    /\ pc = "Provider.Init"
    /\ calls' = Append(calls, "Provider.Init")
    /\ \/ pc' = "GetCurrentRemote" /\ UNCHANGED uiError
       \/ pc' = "ExitCodeError" /\ uiError' = "Provider.Init failed"
    /\ UNCHANGED <<opt, args, method, prev>>

\* c.Provider.GetCurrentRemote()
RunGetCurrentRemote ==
    /\ pc = "GetCurrentRemote"
    /\ calls' = Append(calls, "GetCurrentRemote")
    /\ \/ pc' = "getMethod" /\ UNCHANGED uiError
       \/ pc' = "ExitCodeError" /\ uiError' = "GetCurrentRemote failed"
    /\ UNCHANGED <<opt, args, method, prev>>

\* method, err := c.getMethod(mergeRequestCommandOption, parseArgs, gitlabRemote)
RunGetMethod ==
    /\ pc = "getMethod"
    /\ \E mrClientOk, repoClientOk \in BOOLEAN :
          /\ method' = getMethod(opt, args, mrClientOk, repoClientOk)
          /\ calls' = calls \o getMethodCalls(mrClientOk)
    /\ IF method'.kind = "error"
       THEN pc' = "ExitCodeError" /\ uiError' = method'.msg
       ELSE pc' = "Process" /\ UNCHANGED uiError
    /\ UNCHANGED <<opt, args, prev>>

\* res, err := method.Process()
RunProcess ==
    /\ pc = "Process"
    /\ calls' = Append(calls, "Process")
    /\ \/ pc' = "ExitCodeOK" /\ UNCHANGED uiError
       \/ pc' = "ExitCodeError" /\ uiError' = "Process failed"
    /\ UNCHANGED <<opt, args, method, prev>>

\* the command is invoked again, in a fresh process; prev remembers the
\* signals and the operation of the invocation that just ended
NextInvocation ==
    /\ pc \in {"ExitCodeOK", "ExitCodeError"}
    /\ prev' = IF method.kind = "ok"
               THEN [kind |-> "ok", sig |-> Signals(opt, args), type |-> method.val.type]
               ELSE prev
    /\ opt' = ZeroOpt /\ args' = <<>> /\ pc' = "ParseArgs" /\ calls' = <<>>
    /\ method' = NoneYet /\ uiError' = NoError

(***************************************************************************)
(* editMergeRequestTemplate, editIssueTitleAndDesc                          *)
(***************************************************************************)
Titles == {<<>>, <<"t">>, <<"T">>}
Descriptions == {<<>>, <<"d">>, <<"D">>}

\* fmt.Sprintf("%s\n\n%s\n", title, description)
editMergeRequestTemplate(title, description) ==
    title \o <<"\n", "\n">> \o description \o <<"\n">>

IdleEdit ==
    /\ tmpl = <<>> /\ epc = "idle" /\ fileExists = FALSE /\ fileCreated = FALSE
    /\ editRet = NoneYet

InitEditVars ==
    /\ \E t \in Titles, d \in Descriptions : tmpl = editMergeRequestTemplate(t, d)
    /\ epc = "NewEditor"
    /\ fileExists = FALSE
    /\ fileCreated = FALSE
    /\ editRet = NoneYet

\* git.NewEditor: builds the editor value and the path of its message file;
\* nothing is written yet
NewEditor(ok) ==
    IF ok THEN [kind |-> "ok"] ELSE [kind |-> "error", msg |-> "NewEditor failed"]

\* Editor.EditTitleAndDescription: writes the template to the message file,
\* runs the editor on it and reads title and description back.  It can fail
\* before the file is written, or after.
EditTitleAndDescription(outcome, t, d) ==
    CASE outcome = "writeFailed" -> [kind |-> "error", msg |-> "write failed", wrote |-> FALSE]
      [] outcome = "editFailed"  -> [kind |-> "error", msg |-> "edit failed", wrote |-> TRUE]
      [] outcome = "edited"      -> [kind |-> "ok", title |-> t, description |-> d,
                                     wrote |-> TRUE]

\* editor, err := git.NewEditor("ISSUE", "issue", template, editFunc)
EditNewEditor ==
    /\ epc = "NewEditor"
    /\ \E ok \in BOOLEAN :
          LET r == NewEditor(ok)
          IN  IF r.kind = "error"
              THEN epc' = "returned" /\ editRet' = [kind |-> "error", msg |-> r.msg]
              ELSE epc' = "EditTitleAndDescription" /\ UNCHANGED editRet
    /\ UNCHANGED <<tmpl, fileExists, fileCreated>>

\* title, description, err := editor.EditTitleAndDescription(); on an error
\* the function returns at once, before the deferred DeleteFile is registered
EditEditTitleAndDescription ==
    /\ epc = "EditTitleAndDescription"
    /\ \E outcome \in {"writeFailed", "editFailed", "edited"},
          t \in Titles, d \in Descriptions :
          LET r == EditTitleAndDescription(outcome, t, d)
          IN  /\ fileExists' = r.wrote
              /\ fileCreated' = r.wrote
              /\ IF r.kind = "error"
                 THEN epc' = "returned" /\ editRet' = [kind |-> "error", msg |-> r.msg]
                 ELSE /\ epc' = "deferDeleteFile"
                      /\ editRet' = [kind |-> "pending", title |-> r.title,
                                     description |-> r.description]
    /\ UNCHANGED tmpl

\* defer editor.DeleteFile(); return title, description, nil
EditReturn ==
    /\ epc = "deferDeleteFile"
    /\ fileExists' = FALSE
    /\ editRet' = [kind |-> "ok", title |-> editRet.title,
                   description |-> editRet.description]
    /\ epc' = "returned"
    /\ UNCHANGED <<tmpl, fileCreated>>

(***************************************************************************)
(* Specifications                                                           *)
(***************************************************************************)
\* NewRemoteUrl on generated urls
InitParse == InitParseVars /\ IdleDisc /\ IdleList /\ IdleRun /\ IdleEdit
NextParse == Parse /\ UNCHANGED <<discVars, listVars, runVars, editVars>>
SpecParse == InitParse /\ [][NextParse]_vars

\* remote discovery of the browse command
InitDisc == IdleParse /\ InitDiscVars /\ IdleList /\ IdleRun /\ IdleEdit
NextDisc ==
    /\ \/ RunGitRemotes
       \/ RunFilterGitlabRemote
       \/ RunBrowse
    /\ UNCHANGED <<parseVars, listVars, runVars, editVars>>
SpecDisc == InitDisc /\ [][NextDisc]_vars

\* effective state and scope of the list options
InitList == IdleParse /\ IdleDisc /\ InitListVars /\ IdleRun /\ IdleEdit
NextList ==
    /\ \/ CallGetState
       \/ CallGetScope
    /\ UNCHANGED <<parseVars, discVars, runVars, editVars>>
SpecList == InitList /\ [][NextList]_vars

\* the merge-request command, invoked again and again
InitRun == IdleParse /\ IdleDisc /\ IdleList /\ InitRunVars /\ IdleEdit
NextRun ==
    /\ \/ RunParseArgs
       \/ RunProviderInit
       \/ RunGetCurrentRemote
       \/ RunGetMethod
       \/ RunProcess
       \/ NextInvocation
    /\ UNCHANGED <<parseVars, discVars, listVars, editVars>>
SpecRun == InitRun /\ [][NextRun]_vars

\* the editor-driven flow
InitEdit == IdleParse /\ IdleDisc /\ IdleList /\ IdleRun /\ InitEditVars
NextEdit ==
    /\ \/ EditNewEditor
       \/ EditEditTitleAndDescription
       \/ EditReturn
    /\ UNCHANGED <<parseVars, discVars, listVars, runVars>>
SpecEdit == InitEdit /\ [][NextEdit]_vars

(***************************************************************************)
(* Properties                                                               *)
(***************************************************************************)
Range(f) == {f[i] : i \in DOMAIN f}

\* the identity a url assembled from `in` stands for: its first three segments
WellFormedIn(in) ==
    /\ in.scheme \in {"ssh", "https"}
    /\ Len(in.segs) >= 3
    /\ \A i \in 1..3 : in.segs[i] # <<>>

\* the third path segment as written in the url text
ThirdSegment(in) ==
    IF Len(in.segs) = 3 /\ in.ext THEN in.segs[3] \o dotGitLit ELSE in.segs[3]

\* C2: every well-formed ssh url ssh://user@H/O/P.git parses to host H, owner O
\* and project P without the .git extension, every well-formed https url
\* https://H/O/P parses to host H, owner O, project P; the fields are the first
\* three segments after the scheme and later segments are ignored.
C2_WellFormedUrlParses ==
    (parsed # NoneYet /\ WellFormedIn(urlIn)) =>
        /\ parsed.kind = "ok"
        /\ parsed.val.Url = url
        /\ parsed.val.Domain = urlIn.segs[1]
        /\ parsed.val.User = urlIn.segs[2]
        /\ parsed.val.Repository =
              (IF urlIn.scheme = "ssh" /\ Len(urlIn.segs) = 3
               THEN urlIn.segs[3] ELSE ThirdSegment(urlIn))

C2_Witness ==
    /\ parsed.kind = "ok"
    /\ urlIn.scheme = "ssh" /\ urlIn.ext /\ Len(urlIn.segs) = 3
    /\ WellFormedIn(urlIn)
    /\ parsed.val.Repository = <<"p">>

\* C3: a url with fewer than three path segments after the scheme fails with
\* an error returned as a value; the parser never returns an identity with an
\* empty host, owner or project, and never ends otherwise than with a fully
\* populated identity or a returned error.
C3_ShortUrlIsAnError ==
    parsed # NoneYet =>
        /\ parsed.kind \in {"ok", "error"}
        /\ parsed.kind = "ok" =>
              /\ parsed.val.Domain # <<>>
              /\ parsed.val.User # <<>>
              /\ parsed.val.Repository # <<>>
        /\ (urlIn.scheme \in {"ssh", "https"} /\ Len(urlIn.segs) < 3) =>
              parsed.kind = "error"

\* what the remotes of a discovery run stand for
RemoteParses(u) == WellFormedIn(InOf(u))
RemoteFailsToParse(u) == ~RemoteParses(u)
RemoteMatches(u) == HasPrefix(InOf(u).segs[1], gitlabLit)
IdentityOf(u) ==
    [Url |-> u, Domain |-> InOf(u).segs[1], User |-> InOf(u).segs[2],
     Repository |-> InOf(u).segs[3]]
FirstIndex(P(_)) ==
    CHOOSE i \in 1..Len(remoteUrls) :
        P(remoteUrls[i]) /\ \A j \in 1..(i - 1) : ~P(remoteUrls[j])

\* C4: over remotes whose urls all parse, discovery has three outcomes: the
\* no-remotes error for zero remotes, the no-matching-remote error when no host
\* starts with "gitlab", and otherwise the identity of the first matching
\* remote in enumeration order, which is one of the parsed remotes and never
\* the placeholder entry.
C4_DiscoveryOutcomes ==
    (DiscoveryDone /\ \A i \in 1..Len(remoteUrls) : RemoteParses(remoteUrls[i])) =>
        IF Len(remoteUrls) = 0 THEN
            /\ gitRemotes = [kind |-> "error", msg |-> "No remote setting in this repository"]
            /\ gitlabRemote = NoneYet
            /\ dpc = "ExitCodeError"
        ELSE IF \A i \in 1..Len(remoteUrls) : ~RemoteMatches(remoteUrls[i]) THEN
            /\ gitRemotes.kind = "ok"
            /\ gitlabRemote = [kind |-> "error", msg |-> "Not a cloned repository from gitlab."]
            /\ dpc = "ExitCodeError"
        ELSE
            /\ gitRemotes.kind = "ok"
            /\ gitlabRemote.kind = "ok"
            /\ gitlabRemote.val = IdentityOf(remoteUrls[FirstIndex(RemoteMatches)])
            /\ gitlabRemote.val # ZeroRemoteUrl
            /\ dpc \in {"browse", "ExitCodeOK"}

C4_Witness ==
    /\ dpc = "ExitCodeOK"
    /\ Len(remoteUrls) = 3
    /\ ~RemoteMatches(remoteUrls[1])
    /\ RemoteMatches(remoteUrls[2]) /\ RemoteMatches(remoteUrls[3])
    /\ remoteUrls[2] # remoteUrls[3]
    /\ \A i \in 1..3 : RemoteParses(remoteUrls[i])
    /\ gitlabRemote.kind = "ok" /\ gitlabRemote.val.Url = remoteUrls[2]

ExpectedOperation(o, a) ==
    IF Len(a) > 0 THEN
        IF o.Edit THEN "updateOnEditorMethod"       \* UpdateViaEditor
        ELSE IF o.Title # "" \/ o.Message # "" \/ o.StateEvent # "" \/ o.AssigneeID # 0
        THEN "updateMethod"                         \* Update
        ELSE "detailMethod"                         \* Show
    ELSE
        IF o.Edit THEN "createOnEditorMethod"       \* CreateViaEditor
        ELSE IF o.Title # "" THEN "createMethod"    \* Create
        ELSE IF o.AllProject THEN "listAllMethod"   \* ListAll
        ELSE "listMethod"                           \* ListForProject

\* an optional sign followed by one or more decimal digits
IsIntegerLiteral(s) ==
    LET d == IF Len(s) > 0 /\ s[1] \in {"+", "-"} THEN Tail(s) ELSE s
    IN  Len(d) > 0 /\ \A i \in 1..Len(d) : IsDigit(d[i])
IsNonNegativeLiteral(s) == IsIntegerLiteral(s) /\ s[1] # "-"
LiteralValue(s) == DigitsVal(IF s[1] \in {"+", "-"} THEN Tail(s) ELSE s)

ClientFailures == {"GetMergeRequestClient failed", "GetRepositoryClient failed"}

\* C1: getMethod follows the fixed precedence, the identifier being present
\* iff there is a positional argument: with an identifier edit gives
\* UpdateViaEditor, else content gives Update, else Show; without one edit
\* gives CreateViaEditor, else a title gives Create, else all-project gives
\* ListAll, else ListForProject; exactly one operation is returned.
C1_SelectionPrecedence ==
    /\ method.kind = "ok" =>
          /\ method.val.type \in MethodTypes
          /\ method.val.type = ExpectedOperation(opt, args)
    /\ method.kind = "error" =>
          \/ method.msg \in ClientFailures
          \/ method.msg = InvalidIID /\ Len(args) > 0 /\ ~IsIntegerLiteral(args[1])

C1_Witness ==
    /\ method.kind = "ok"
    /\ Len(args) > 0 /\ opt.Edit /\ opt.Title = "x"
    /\ method.val.type = "updateOnEditorMethod"

\* C6: the identifier comes from the first positional argument only: absent
\* without arguments, the integer when the first token is a valid non-negative
\* integer literal, and the invalid-identifier error with no operation selected
\* for any other first token, a negative literal included.
C6_IdentifierFromFirstArgument ==
    (method # NoneYet /\ ~(method.kind = "error" /\ method.msg \in ClientFailures)) =>
        IF Len(args) = 0 THEN
            method.kind = "ok" /\ "id" \notin DOMAIN method.val
        ELSE IF IsNonNegativeLiteral(args[1]) THEN
            method.kind = "ok" /\ method.val.id = LiteralValue(args[1])
        ELSE
            method.kind = "error" /\ method.msg = InvalidIID

\* C9 (as stated): when the first positional argument is not a valid integer,
\* the invalid-identifier error is reported before provider initialisation,
\* current-remote lookup, API client construction or a Process call.
C9_RejectedBeforeAnyCall ==
    uiError = InvalidIID => calls = <<>>

\* C9 (amended): when the first positional argument is not a valid integer the
\* handler's Process call is never made and Run ends with the error exit code;
\* the invalid-identifier error is reported after provider initialisation,
\* current-remote lookup and the construction of both API clients, and is the
\* error reported whenever those four calls succeed.
C9_RejectedBeforeProcess ==
    /\ (pc # "ParseArgs" /\ Len(args) > 0 /\ ~IsIntegerLiteral(args[1])) =>
          /\ "Process" \notin Range(calls)
          /\ pc \notin {"Process", "ExitCodeOK"}
          /\ method.kind # "ok"
          /\ (pc = "ExitCodeError" /\ uiError \notin
                 (ClientFailures \cup {"Provider.Init failed", "GetCurrentRemote failed"}))
                => uiError = InvalidIID
    /\ uiError = InvalidIID =>
          /\ Len(args) > 0 /\ ~IsIntegerLiteral(args[1])
          /\ calls = <<"Provider.Init", "GetCurrentRemote",
                       "GetMergeRequestClient", "GetRepositoryClient">>
          /\ pc = "ExitCodeError"

C9_Witness ==
    /\ uiError = InvalidIID
    /\ args[1] = <<"a", "b", "c">>
    /\ Len(calls) = 4
    /\ pc = "ExitCodeError"

FourSignals(sig) == <<sig.idPresent, sig.edit, sig.content, sig.allProject>>

\* C10 (as stated): two invocations of getMethod that agree on (identifier
\* present, edit flag, has create/update content, all-project flag) select the
\* same operation.
C10_FourSignalsDecide ==
    (prev.kind = "ok" /\ method.kind = "ok"
        /\ FourSignals(prev.sig) = FourSignals(Signals(opt, args)))
    => prev.type = method.val.type

\* C10 (amended): two invocations of getMethod that agree on (identifier
\* present, edit flag, has create/update content, title non-empty, all-project
\* flag) select the same operation, whatever the individual option values are.
C10_FiveSignalsDecide ==
    (prev.kind = "ok" /\ method.kind = "ok" /\ prev.sig = Signals(opt, args))
    => prev.type = method.val.type

C10_Witness ==
    /\ prev.kind = "ok" /\ method.kind = "ok"
    /\ prev.sig = Signals(opt, args)
    /\ prev.sig.content /\ prev.sig.title /\ ~prev.sig.idPresent /\ ~prev.sig.edit
    /\ opt.Message = "" /\ opt.AssigneeID = 1
    /\ method.val.type = "createMethod"

\* C7: whenever a temporary template file has been created, it has been
\* deleted by the time editIssueTitleAndDesc returns, on every exit path, the
\* failure of the editor step included.
C7_TemplateFileDeleted ==
    (epc = "returned" /\ fileCreated) => ~fileExists

====
